---- MODULE Spec2Model ----
(***************************************************************************)
(* A model of votekit's ballot generators (src/src/votekit/                *)
(* ballot_generator.py): folding a ballot pool into a PreferenceProfile,   *)
(* the generator constructors and their generate_ballots operations; of    *)
(* cleaning.remove_empty_ballots (src/src/votekit/cleaning.py); and of the *)
(* aggregation and tiebreak utilities exercised by tests/test_utils.py     *)
(* (remove_cand, expand_tied_ballot, tiebreak_set,                         *)
(* elect_cands_from_set_ranking).                                          *)
(*                                                                         *)
(* Python values are modelled as follows.                                  *)
(*   str            a sequence of one-character strings: "ab" is           *)
(*                  <<"a", "b">>.  A one-character str is its own only     *)
(*                  element, as in Python.                                  *)
(*   Fraction       a record [num, den] in lowest terms, den > 0.          *)
(*   an element of  a record [isset, str, set]: a str (hashable) or a set  *)
(*   a ranking      of strs (unhashable).                                   *)
(*   a return value a record [kind, ballots, candidates]; kind is          *)
(*                  "PreferenceProfile", "None", or the exception raised.  *)
(***************************************************************************)
EXTENDS Integers, Sequences, FiniteSets, TLC

VARIABLES pc, call, gen, ballot_pool, result, pool2, result2, rng, pp

vars == <<pc, call, gen, ballot_pool, result, pool2, result2, rng, pp>>

(***************************************************************************)
(* Bounds of the model.                                                    *)
(***************************************************************************)
\* longest ballot pool handed to ballot_pool_to_profile directly
MaxPool == 3
\* longest ranking in such a pool
MaxRankLen == 2
\* most candidates of a generator
MaxCands == 2
\* largest number_of_ballots of a generator
MaxBallots == 3
\* proportions and support weights are multiples of 1 / Denom
Denom == 2
\* number of states of the process-wide random number generator
RngStates == 8
\* most ballots of a profile handed to remove_empty_ballots
MaxProfile == 3

(***************************************************************************)
(* Helpers over sequences and numbers.                                     *)
(***************************************************************************)
Range(s) == {s[i] : i \in DOMAIN s}

SeqsUpTo(S, n) == UNION {[1..k -> S] : k \in 0..n}

IsInjective(s) == \A i, j \in DOMAIN s : s[i] = s[j] => i = j

Permutations_of(n) == {p \in [1..n -> 1..n] : IsInjective(p)}

RECURSIVE Gcd(_, _)
Gcd(a, b) == IF b = 0 THEN a ELSE Gcd(b, a % b)

\* fractions.Fraction(numerator, denominator): normalised to lowest terms
Fraction2(n, d) ==
    LET g == Gcd(IF n < 0 THEN -n ELSE n, d)
    IN  IF n = 0 THEN [num |-> 0, den |-> 1] ELSE [num |-> n \div g, den |-> d \div g]

\* fractions.Fraction(count) for an int
Fraction(n) == Fraction2(n, 1)

FracAdd(x, y) == Fraction2(x.num * y.den + y.num * x.den, x.den * y.den)

RECURSIVE SumWeights(_)
SumWeights(ballots) ==
    IF ballots = <<>> THEN Fraction(0)
    ELSE FracAdd(Head(ballots).weight, SumWeights(Tail(ballots)))

(***************************************************************************)
(* Python values.                                                          *)
(***************************************************************************)
\* a str as an element of a ranking
Str(name) == [isset |-> FALSE, str |-> name, set |-> {}]

\* a set of strs as an element of a ranking (a tied block)
Block(s) == [isset |-> TRUE, str |-> <<>>, set |-> s]

\* hash(tuple_rank) succeeds iff every element is hashable: a set is not
Hashable(tuple_rank) == \A i \in DOMAIN tuple_rank : ~tuple_rank[i].isset

\* set(cand): of a str, the set of its characters; of a set, a copy of it
PySet(cand) ==
    IF cand.isset THEN cand.set
    ELSE {<<cand.str[i]>> : i \in DOMAIN cand.str}

\* a list of strs as a ranking of a ballot pool
StrRanking(names) == [i \in DOMAIN names |-> Str(names[i])]

\* Ballot(ranking=..., weight=...)
Ballot(ranking, weight) == [ranking |-> ranking, weight |-> weight]

\* PreferenceProfile(ballots=..., candidates=...)
PreferenceProfile(ballots, candidates) ==
    [kind |-> "PreferenceProfile", ballots |-> ballots, candidates |-> candidates]

\* a Python exception leaving the call, or a call returning None
Raises(exc) == [kind |-> exc, ballots |-> <<>>, candidates |-> <<>>]

ReturnsNone == [kind |-> "None", ballots |-> <<>>, candidates |-> <<>>]

\* no call has returned yet
NoResult == [kind |-> "pending", ballots |-> <<>>, candidates |-> <<>>]

NoGen == [cls |-> "none"]

NoCall == [cls |-> "none"]

\* no profile is handed to a function of the module
NoProfile == [kind |-> "none", ballots |-> <<>>, candidates |-> <<>>]

\* the process-wide generator of the random module: the seed last given to
\* random.seed, the current state, and whether random.seed was called again
NoRng == [seed |-> 0, state |-> 0, reseeded |-> FALSE]

\* Optional[int]
NoneInt == [none |-> TRUE, val |-> 0]

SomeInt(k) == [none |-> FALSE, val |-> k]

(***************************************************************************)
(* Ballot_Generator.ballot_pool_to_profile                                 *)
(***************************************************************************)
\* ranking_counts is an insertion-ordered dict: a sequence of [key, count]
HasKey(ranking_counts, tuple_rank) ==
    \E i \in DOMAIN ranking_counts : ranking_counts[i].key = tuple_rank

\* a bug: the count is never incremented
count_ranking_no_increment(ranking_counts, tuple_rank) ==
    IF HasKey(ranking_counts, tuple_rank) THEN ranking_counts
    ELSE Append(ranking_counts, [key |-> tuple_rank, count |-> 1])

\* a bug: only a run of adjacent equal rankings is merged
count_ranking_adjacent(ranking_counts, tuple_rank) ==
    IF ranking_counts # <<>> /\ ranking_counts[Len(ranking_counts)].key = tuple_rank
    THEN [ranking_counts EXCEPT ![Len(ranking_counts)].count = @ + 1]
    ELSE Append(ranking_counts, [key |-> tuple_rank, count |-> 1])

\* ranking_counts[tuple_rank] = ranking_counts[tuple_rank] + 1 if present else 1
count_ranking(ranking_counts, tuple_rank) ==
    IF HasKey(ranking_counts, tuple_rank)
    THEN [i \in DOMAIN ranking_counts |->
            IF ranking_counts[i].key = tuple_rank
            THEN [ranking_counts[i] EXCEPT !.count = @ + 1]
            ELSE ranking_counts[i]]
    ELSE Append(ranking_counts, [key |-> tuple_rank, count |-> 1])

\* for ranking in ballot_pool: ...
RECURSIVE count_rankings(_, _)
count_rankings(pool, ranking_counts) ==
    IF pool = <<>> THEN ranking_counts
    ELSE count_rankings(Tail(pool), count_ranking(ranking_counts, Head(pool)))

\* rank = [set(cand) for cand in ranking]; Ballot(ranking=rank, weight=Fraction(count))
ballot_of_count(entry) ==
    Ballot([i \in DOMAIN entry.key |-> PySet(entry.key[i])], Fraction(entry.count))

ballot_pool_to_profile(pool, candidates) ==
    IF \E i \in DOMAIN pool : ~Hashable(pool[i])
    THEN Raises("TypeError")
    ELSE LET ranking_counts == count_rankings(pool, <<>>)
             ballot_list == [i \in DOMAIN ranking_counts |->
                                ballot_of_count(ranking_counts[i])]
         IN  PreferenceProfile(ballot_list, candidates)

(***************************************************************************)
(* Folding a pool given directly: the pools are lists of lists of          *)
(* candidate names.                                                        *)
(***************************************************************************)
\* candidate names of the directly folded pools: "a" and "ab"
FoldNames == <<(<<"a">>), (<<"a", "b">>)>>

FoldRankings ==
    {StrRanking(r) : r \in {s \in SeqsUpTo(Range(FoldNames), MaxRankLen) : IsInjective(s)}}

FoldPools == SeqsUpTo(FoldRankings, MaxPool)

InitFold ==
    /\ pc = "pool"
    /\ call = NoCall
    /\ gen = NoGen
    /\ ballot_pool \in FoldPools
    /\ result = NoResult
    /\ pool2 = <<>>
    /\ result2 = NoResult
    /\ rng = NoRng
    /\ pp = NoProfile

\* profile = ballot_pool_to_profile(ballot_pool, candidates)
Fold ==
    /\ pc = "pool"
    /\ result' = ballot_pool_to_profile(ballot_pool, FoldNames)
    /\ pc' = "folded"
    /\ UNCHANGED <<call, gen, ballot_pool, pool2, result2, rng, pp>>

\* the same pool in another order, folded
FoldReordered ==
    /\ pc = "folded"
    /\ \E p \in Permutations_of(Len(ballot_pool)) :
          /\ pool2' = [i \in DOMAIN ballot_pool |-> ballot_pool[p[i]]]
          /\ result2' = ballot_pool_to_profile(pool2', FoldNames)
    /\ pc' = "reordered"
    /\ UNCHANGED <<call, gen, ballot_pool, result, rng, pp>>

\* the ranking of a ballot of a folded profile as an item of a ballot pool:
\* a list of sets, as line 63 built it
BallotAsRanking(b) == [i \in DOMAIN b.ranking |-> Block(b.ranking[i])]

\* ballot_pool_to_profile([b.ranking for b in profile.ballots], candidates):
\* the folded profile's ballot list folded again
Refold ==
    /\ pc = "folded"
    /\ result.kind = "PreferenceProfile"
    /\ pool2' = [i \in DOMAIN result.ballots |-> BallotAsRanking(result.ballots[i])]
    /\ result2' = ballot_pool_to_profile(pool2', result.candidates)
    /\ pc' = "refolded"
    /\ UNCHANGED <<call, gen, ballot_pool, result, rng, pp>>

NextFold == Fold \/ FoldReordered \/ Refold

SpecFold == InitFold /\ [][NextFold]_vars

(***************************************************************************)
(* Claims about ballot_pool_to_profile.                                    *)
(***************************************************************************)
PairSet(ballots) == {<<ballots[i].ranking, ballots[i].weight>> : i \in DOMAIN ballots}

\* the ranking a list of candidate names stands for: one singleton block each
SingletonBlocks(ranking) == [i \in DOMAIN ranking |-> {ranking[i].str}]

Occurrences(pool, ranking) == Cardinality({k \in DOMAIN pool : pool[k] = ranking})

\* C1: the weights of the profile folded from a pool sum to the number of
\* rankings in the pool, as exact rationals.
C1_WeightSum ==
    /\ pc \in {"folded", "reordered", "refolded"} =>
          /\ result.kind = "PreferenceProfile"
          /\ SumWeights(result.ballots) = Fraction(Len(ballot_pool))
    /\ pc = "reordered" =>
          /\ result2.kind = "PreferenceProfile"
          /\ SumWeights(result2.ballots) = Fraction(Len(pool2))

\* a pool of three rankings, two of them equal, has been folded
C1_Witness ==
    /\ pc = "folded"
    /\ Len(ballot_pool) = 3
    /\ Len(result.ballots) = 2
    /\ \E i \in DOMAIN result.ballots : result.ballots[i].weight = Fraction(2)

\* C2: the fold yields exactly one Ballot per distinct ranking of the pool:
\* no two ballots share a ranking, every ranking of the pool is the ranking
\* of a ballot, and each ballot's weight is the number of occurrences of its
\* ranking in the pool.
C2_OneBallotPerRanking ==
    pc = "folded" =>
      /\ result.kind = "PreferenceProfile"
      /\ \A i, j \in DOMAIN result.ballots :
            result.ballots[i].ranking = result.ballots[j].ranking => i = j
      /\ \A k \in DOMAIN ballot_pool :
            \E i \in DOMAIN result.ballots :
               result.ballots[i].ranking = SingletonBlocks(ballot_pool[k])
      /\ \A i \in DOMAIN result.ballots :
            \E k \in DOMAIN ballot_pool :
               /\ result.ballots[i].ranking = SingletonBlocks(ballot_pool[k])
               /\ result.ballots[i].weight =
                     Fraction(Occurrences(ballot_pool, ballot_pool[k]))

\* C3: folding the ballot list of a folded profile again yields a profile
\* with the same rankings and the same weights.
C3_RefoldIdempotent ==
    pc = "refolded" =>
      /\ result2.kind = "PreferenceProfile"
      /\ PairSet(result2.ballots) = PairSet(result.ballots)

\* C4: two pools that are permutations of one another fold to profiles with
\* the same set of (ranking, weight) pairs.
C4_Commutative ==
    pc = "reordered" =>
      /\ result.kind = "PreferenceProfile"
      /\ result2.kind = "PreferenceProfile"
      /\ PairSet(result2.ballots) = PairSet(result.ballots)

\* a pool with a repeated ranking, folded in two orders that list the
\* ballots differently
C4_Witness ==
    /\ pc = "reordered"
    /\ pool2 # ballot_pool
    /\ result2.ballots # result.ballots
    /\ \E i \in DOMAIN result.ballots : result.ballots[i].weight = Fraction(2)

(***************************************************************************)
(* Generator configurations.                                               *)
(***************************************************************************)
Chars == <<"a", "b", "c", "d", "e", "f">>

\* candidates = ["a", "b", ...]
CandidateList(n) == [i \in 1..n |-> <<Chars[i]>>]

\* the blocs, in the order of the keys of slate_voter_prop
Slates == <<"W", "C">>

RECURSIVE SumSeq(_)
SumSeq(s) == IF s = <<>> THEN 0 ELSE Head(s) + SumSeq(Tail(s))

\* n weights, each a multiple of 1 / Denom, that sum to 1
Compositions(n) == {s \in [1..n -> 0..Denom] : SumSeq(s) = Denom}

\* n weights, each a multiple of 1 / Denom, whatever their sum
AnyWeights(n) == [1..n -> 0..Denom]

BallotLengths(n) == {NoneInt} \cup {SomeInt(k) : k \in 1..n}

\* Cls(number_of_ballots=..., candidates=..., ballot_length=...)
BaseCalls(cls) ==
    {[cls |-> cls, number_of_ballots |-> N, candidates |-> CandidateList(n),
      ballot_length |-> bl, pref_interval_by_slate |-> <<>>,
      slate_voter_prop |-> <<>>, extra |-> <<>>] :
        N \in 0..MaxBallots, n \in 1..MaxCands, bl \in BallotLengths(MaxCands)}

\* Cls(pref_interval_by_slate=..., slate_voter_prop=..., number_of_ballots=...,
\*     candidates=..., ballot_length=...), the proportions drawn from Props
BlocCalls(cls, Props) ==
    UNION {{[c EXCEPT !.pref_interval_by_slate = pref, !.slate_voter_prop = prop] :
              pref \in [DOMAIN Slates -> Compositions(Len(c.candidates))],
              prop \in Props} : c \in BaseCalls(cls)}

ValidCall(c) == c.ballot_length.none \/ c.ballot_length.val <= Len(c.candidates)

(***************************************************************************)
(* Constructors.                                                           *)
(***************************************************************************)
\* Ballot_Generator.__init__(self, number_of_ballots, candidates, ballot_length):
\* Python binds the keywords first; one the signature does not name is a
\* TypeError
Ballot_Generator_init(c) ==
    IF DOMAIN c.extra # {}
    THEN [ok |-> FALSE, exc |-> "TypeError", obj |-> NoGen]
    ELSE [ok |-> TRUE, exc |-> "",
          obj |-> [cls |-> c.cls,
                   number_of_ballots |-> c.number_of_ballots,
                   ballot_length |-> IF c.ballot_length.none
                                     THEN Len(c.candidates)
                                     ELSE c.ballot_length.val,
                   candidates |-> c.candidates,
                   pref_interval_by_slate |-> <<>>,
                   slate_voter_prop |-> <<>>]]

\* PlackettLuce.__init__ and BradleyTerry.__init__(self, pref_interval_by_slate,
\* slate_voter_prop, **data): super().__init__(**data), then the two fields
Bloc_init(c) ==
    LET base == Ballot_Generator_init(c)
    IN  IF ~base.ok THEN base
        ELSE [base EXCEPT !.obj.pref_interval_by_slate = c.pref_interval_by_slate,
                          !.obj.slate_voter_prop = c.slate_voter_prop]

Construct(c) ==
    /\ call' = c
    /\ LET r == IF c.cls \in {"PlackettLuce", "BradleyTerry"}
                THEN Bloc_init(c) ELSE Ballot_Generator_init(c)
       IN  IF r.ok
           THEN gen' = r.obj /\ pc' = "constructed" /\ result' = NoResult
           ELSE gen' = NoGen /\ pc' = "rejected" /\ result' = Raises(r.exc)
    /\ UNCHANGED <<ballot_pool, pool2, result2, rng, pp>>

ValidProps == {p \in AnyWeights(Len(Slates)) : SumSeq(p) = Denom}

NewIC ==
    /\ pc = "new"
    /\ \E c \in BaseCalls("IC") : ValidCall(c) /\ Construct(c)

NewIAC ==
    /\ pc = "new"
    /\ \E c \in BaseCalls("IAC") : ValidCall(c) /\ Construct(c)

NewPlackettLuce ==
    /\ pc = "new"
    /\ \E c \in BlocCalls("PlackettLuce", ValidProps) : ValidCall(c) /\ Construct(c)

NewBradleyTerry ==
    /\ pc = "new"
    /\ \E c \in BlocCalls("BradleyTerry", ValidProps) : ValidCall(c) /\ Construct(c)

NewCambridgeSampler ==
    /\ pc = "new"
    /\ \E c \in BaseCalls("CambridgeSampler") : ValidCall(c) /\ Construct(c)

NewOneDimSpatial ==
    /\ pc = "new"
    /\ \E c \in BaseCalls("OneDimSpatial") : ValidCall(c) /\ Construct(c)

\* PlackettLuce(..., slate_voter_prop=prop) for any proportions
NewPlackettLuceAnyProps ==
    /\ pc = "new"
    /\ \E c \in BlocCalls("PlackettLuce", AnyWeights(Len(Slates))) :
          ValidCall(c) /\ Construct(c)

\* CambridgeSampler(..., W_bloc=..., C_bloc=...): each of the two keywords
\* given or not
BlocKeywords ==
    UNION {[K -> {"A", "B"}] : K \in SUBSET {"W_bloc", "C_bloc"}}

NewCambridgeSamplerBlocs ==
    /\ pc = "new"
    /\ \E c \in BaseCalls("CambridgeSampler"), kw \in BlocKeywords :
          ValidCall(c) /\ Construct([c EXCEPT !.extra = kw])

InitGen ==
    /\ pc = "new"
    /\ call = NoCall
    /\ gen = NoGen
    /\ ballot_pool = <<>>
    /\ result = NoResult
    /\ pool2 = <<>>
    /\ result2 = NoResult
    /\ rng = NoRng
    /\ pp = NoProfile

NextCtor == NewPlackettLuceAnyProps \/ NewCambridgeSamplerBlocs

SpecCtor == InitGen /\ [][NextCtor]_vars

(***************************************************************************)
(* generate_ballots of each generator.  What a run draws at random is      *)
(* chosen by \E among the outcomes the draw can have.                      *)
(***************************************************************************)
\* the 6 of range(6) in IAC.generate_ballots
IACRange == 6

RECURSIVE Flatten(_)
Flatten(ss) == IF ss = <<>> THEN <<>> ELSE Head(ss) \o Flatten(Tail(ss))

RemoveAt(s, i) == [j \in 1..(Len(s) - 1) |-> IF j < i THEN s[j] ELSE s[j + 1]]

\* list(itertools.permutations(c, r)), in itertools' order
RECURSIVE permutations(_, _)
permutations(c, r) ==
    IF r = 0 THEN << <<>> >>
    ELSE IF r > Len(c) THEN <<>>
    ELSE Flatten([i \in 1..Len(c) |->
            LET rest == permutations(RemoveAt(c, i), r - 1)
            IN  [j \in DOMAIN rest |-> <<c[i]>> \o rest[j]]])

\* perm_rankings = [list(value) for value in perm_set]
perm_rankings_of(g) ==
    LET perm_set == permutations(g.candidates, g.ballot_length)
    IN  [i \in DOMAIN perm_set |-> StrRanking(perm_set[i])]

\* ballot_pool.append(perm_rankings[index]) for each index drawn
pool_of_indices(perm_rankings, indices) ==
    [i \in DOMAIN indices |-> perm_rankings[indices[i] + 1]]

Return(pool, r) ==
    /\ ballot_pool' = pool
    /\ result' = r
    /\ pc' = "done"
    /\ UNCHANGED <<call, gen, pool2, result2, rng, pp>>

\* IC.generate_ballots; random.randint(0, -1) raises ValueError
GenerateIC ==
    /\ pc = "constructed"
    /\ gen.cls = "IC"
    /\ LET perm_rankings == perm_rankings_of(gen)
           P == Len(perm_rankings)
       IN  IF gen.number_of_ballots > 0 /\ P = 0
           THEN Return(<<>>, Raises("ValueError"))
           ELSE \E indices \in [1..gen.number_of_ballots -> 0..(P - 1)] :
                   LET pool == pool_of_indices(perm_rankings, indices)
                   IN  Return(pool, ballot_pool_to_profile(pool, gen.candidates))

\* IAC.generate_ballots; np.random.choice(range(6), 1, p=draw_probabilites)
\* raises ValueError unless p has 6 entries
GenerateIAC ==
    /\ pc = "constructed"
    /\ gen.cls = "IAC"
    /\ LET perm_rankings == perm_rankings_of(gen)
           P == Len(perm_rankings)
       IN  IF gen.number_of_ballots > 0 /\ P # IACRange
           THEN Return(<<>>, Raises("ValueError"))
           ELSE \E indices \in [1..gen.number_of_ballots -> 0..(IACRange - 1)] :
                   LET pool == pool_of_indices(perm_rankings, indices)
                   IN  Return(pool, ballot_pool_to_profile(pool, gen.candidates))

\* int(self.number_of_ballots * self.slate_voter_prop[slate]), the product
\* taken exactly: int() truncates
num_ballots_of(g, slate) ==
    (g.number_of_ballots * g.slate_voter_prop[slate]) \div Denom

\* the ballots of the slates before this one in the pool
BallotsBefore(g, slate) ==
    SumSeq([j \in 1..(slate - 1) |-> num_ballots_of(g, j)])

TotalBallots(g) == BallotsBefore(g, Len(Slates) + 1)

\* the ballot lists the loop over the two slates can build: for each slate in
\* turn, num_ballots_of(g, slate) ballots, each among outcomes(slate)
SlateDraws(g, outcomes) ==
    {first \o second :
        first \in [1..num_ballots_of(g, 1) -> outcomes[1]],
        second \in [1..num_ballots_of(g, 2) -> outcomes[2]]}

NonZero(p) == {j \in DOMAIN p : p[j] > 0}

\* numpy.random.choice(a, size, p=p, replace=False) raises ValueError
choice_raises(a, size, p) ==
    \/ Len(p) # Len(a)
    \/ SumSeq(p) # Denom
    \/ size > Len(a)
    \/ Cardinality(NonZero(p)) < size

\* a bug: replace=True
choice_with_replacement(a, size, p) ==
    {StrRanking([i \in 1..size |-> a[idx[i]]]) : idx \in [1..size -> NonZero(p)]}

\* the lists numpy.random.choice(a, size, p=p, replace=False) can return
choice_outcomes(a, size, p) ==
    {StrRanking([i \in 1..size |-> a[idx[i]]]) :
        idx \in {f \in [1..size -> NonZero(p)] : IsInjective(f)}}

\* PlackettLuce.generate_ballots
GeneratePlackettLuce ==
    /\ pc = "constructed"
    /\ gen.cls = "PlackettLuce"
    /\ IF \E slate \in DOMAIN Slates :
             /\ num_ballots_of(gen, slate) > 0
             /\ choice_raises(gen.candidates, gen.ballot_length,
                              gen.pref_interval_by_slate[slate])
       THEN Return(<<>>, Raises("ValueError"))
       ELSE \E drawn \in SlateDraws(gen, [slate \in DOMAIN Slates |->
                         choice_outcomes(gen.candidates, gen.ballot_length,
                                         gen.pref_interval_by_slate[slate])]) :
               Return(drawn, ballot_pool_to_profile(drawn, gen.candidates))

IndexOf(s, x) == CHOOSE i \in DOMAIN s : s[i] = x

\* cand_support_dict[cand]
SupportOf(g, slate, cand) ==
    g.pref_interval_by_slate[slate][IndexOf(g.candidates, cand)]

\* the factors of BradleyTerry._calc_prob for one ranking: the pairs (i, j)
\* with i <= j
ProbPairs(ranking) ==
    {ij \in (DOMAIN ranking) \X (DOMAIN ranking) : ij[1] <= ij[2]}

RECURSIVE ProdOver(_, _, _)
ProdOver(pairs, f, acc) ==
    IF pairs = {} THEN acc
    ELSE LET ij == CHOOSE x \in pairs : TRUE
         IN  ProdOver(pairs \ {ij}, f, acc * f[ij])

\* greater_cand_support / (greater_cand_support + cand_support) divides by zero
calc_prob_raises(g, slate, ranking) ==
    \E ij \in ProbPairs(ranking) :
       SupportOf(g, slate, ranking[ij[1]]) + SupportOf(g, slate, ranking[ij[2]]) = 0

\* BradleyTerry._calc_prob for one ranking, as numerator over denominator
calc_prob(g, slate, ranking) ==
    LET num == [ij \in ProbPairs(ranking) |-> SupportOf(g, slate, ranking[ij[1]])]
        den == [ij \in ProbPairs(ranking) |->
                  SupportOf(g, slate, ranking[ij[1]])
                    + SupportOf(g, slate, ranking[ij[2]])]
    IN  [num |-> ProdOver(ProbPairs(ranking), num, 1),
         den |-> ProdOver(ProbPairs(ranking), den, 1)]

\* BradleyTerry.generate_ballots
GenerateBradleyTerry ==
    /\ pc = "constructed"
    /\ gen.cls = "BradleyTerry"
    /\ LET perms == permutations(gen.candidates, gen.ballot_length)
           drawable ==
              [slate \in DOMAIN Slates |->
                 {StrRanking(perms[i]) : i \in {j \in DOMAIN perms :
                                                  calc_prob(gen, slate, perms[j]).num > 0}}]
       IN  IF \E slate \in DOMAIN Slates, i \in DOMAIN perms :
                 calc_prob_raises(gen, slate, perms[i])
           THEN Return(<<>>, Raises("ZeroDivisionError"))
           ELSE IF perms = <<>> /\ TotalBallots(gen) > 0
           THEN Return(<<>>, Raises("ValueError"))
           ELSE \E drawn \in SlateDraws(gen, drawable) :
                   Return(drawn, ballot_pool_to_profile(drawn, gen.candidates))

\* CambridgeSampler.generate_ballots: pass
GenerateCambridgeSampler ==
    /\ pc = "constructed"
    /\ gen.cls = "CambridgeSampler"
    /\ Return(<<>>, ReturnsNone)

\* OneDimSpatial.generate_ballots: sorted() compares arrays of
\* len(candidates) distances (ValueError when there are two or more), and
\* ballot_pool_to_profile is called without its candidates argument
GenerateOneDimSpatial ==
    /\ pc = "constructed"
    /\ gen.cls = "OneDimSpatial"
    /\ IF gen.number_of_ballots >= 1 /\ Len(gen.candidates) >= 2
       THEN Return(<<>>, Raises("ValueError"))
       ELSE Return(<<>>, Raises("TypeError"))

NextGen ==
    \/ NewIC \/ NewIAC \/ NewPlackettLuce \/ NewBradleyTerry
    \/ NewCambridgeSampler \/ NewOneDimSpatial
    \/ GenerateIC \/ GenerateIAC \/ GeneratePlackettLuce \/ GenerateBradleyTerry
    \/ GenerateCambridgeSampler \/ GenerateOneDimSpatial

SpecGen == InitGen /\ [][NextGen]_vars

NextPlackettLuce == NewPlackettLuce \/ GeneratePlackettLuce

SpecPlackettLuce == InitGen /\ [][NextPlackettLuce]_vars

(***************************************************************************)
(* The process-wide random state.  IC.generate_ballots draws with          *)
(* random.randint, which reads and advances the random module's one        *)
(* generator; so does every other draw made in the process.                *)
(***************************************************************************)
\* the generator's next state
NextRng(x) == (5 * x + 3) % RngStates

RECURSIVE RngAfter(_, _)
RngAfter(x, k) == IF k = 0 THEN x ELSE RngAfter(NextRng(x), k - 1)

\* the indices that N calls of random.randint(0, P - 1) return from state x
randint_indices(x, N, P) == [i \in 1..N |-> RngAfter(x, i) % P]

\* random.seed(s) at the start of the process
InitSeed ==
    /\ pc = "new"
    /\ call = NoCall
    /\ gen = NoGen
    /\ ballot_pool = <<>>
    /\ result = NoResult
    /\ pool2 = <<>>
    /\ result2 = NoResult
    /\ \E s \in 0..(RngStates - 1) : rng = [seed |-> s, state |-> s, reseeded |-> FALSE]
    /\ pp = NoProfile

\* IC(..., seed=s): the constructor is handed a seed
NewICWithSeed ==
    /\ pc = "new"
    /\ \E c \in BaseCalls("IC") :
          ValidCall(c) /\ Construct([c EXCEPT !.extra = [k \in {"seed"} |-> rng.seed]])

\* the outcome of IC.generate_ballots from random state x
IC_from_state(g, x) ==
    LET perm_rankings == perm_rankings_of(g)
        P == Len(perm_rankings)
        pool == pool_of_indices(perm_rankings,
                                randint_indices(x, g.number_of_ballots, P))
    IN  IF g.number_of_ballots > 0 /\ P = 0
        THEN [pool |-> <<>>, result |-> Raises("ValueError"), state |-> x]
        ELSE [pool |-> pool,
              result |-> ballot_pool_to_profile(pool, g.candidates),
              state |-> RngAfter(x, g.number_of_ballots)]

\* IC.generate_ballots, first run
RunIC ==
    /\ pc = "constructed"
    /\ gen.cls = "IC"
    /\ LET run == IC_from_state(gen, rng.state)
       IN  /\ ballot_pool' = run.pool
           /\ result' = run.result
           /\ rng' = [rng EXCEPT !.state = run.state]
    /\ pc' = "done"
    /\ UNCHANGED <<call, gen, pool2, result2, pp>>

\* any other code of the process draws a random number
OtherDraw ==
    /\ pc = "done"
    /\ rng' = [rng EXCEPT !.state = NextRng(rng.state)]
    /\ UNCHANGED <<pc, call, gen, ballot_pool, result, pool2, result2, pp>>

\* the caller calls random.seed again with the same seed
Reseed ==
    /\ pc = "done"
    /\ rng' = [rng EXCEPT !.state = rng.seed, !.reseeded = TRUE]
    /\ UNCHANGED <<pc, call, gen, ballot_pool, result, pool2, result2, pp>>

\* IC.generate_ballots, second run of the same generator
RunICAgain ==
    /\ pc = "done"
    /\ LET run == IC_from_state(gen, rng.state)
       IN  /\ pool2' = run.pool
           /\ result2' = run.result
           /\ rng' = [rng EXCEPT !.state = run.state]
    /\ pc' = "done2"
    /\ UNCHANGED <<call, gen, ballot_pool, result, pp>>

NextSeed == NewIC \/ NewICWithSeed \/ RunIC \/ OtherDraw \/ Reseed \/ RunICAgain

SpecSeed == InitSeed /\ [][NextSeed]_vars

(***************************************************************************)
(* Claims about the generators.                                            *)
(***************************************************************************)
IsBlocModel(cls) == cls \in {"PlackettLuce", "BradleyTerry"}

\* C5: the profile returned by generate_ballots of IC, PlackettLuce or
\* BradleyTerry with number_of_ballots = N (bloc proportions summing to 1)
\* has total ballot weight exactly N.
C5_TotalWeightIsN ==
    (/\ pc = "done"
     /\ gen.cls \in {"IC", "PlackettLuce", "BradleyTerry"}
     /\ IsBlocModel(gen.cls) => SumSeq(gen.slate_voter_prop) = Denom
     /\ result.kind = "PreferenceProfile")
    => SumWeights(result.ballots) = Fraction(gen.number_of_ballots)

PositiveSupport(g) ==
    \A slate \in DOMAIN g.pref_interval_by_slate :
       \A j \in DOMAIN g.pref_interval_by_slate[slate] :
          g.pref_interval_by_slate[slate][j] > 0

\* C7: generate_ballots of every constructed generator returns a
\* PreferenceProfile (for the bloc models: on a configuration whose support
\* weights are all positive).
C7_ReturnsProfile ==
    (pc = "done" /\ PositiveSupport(gen)) => result.kind = "PreferenceProfile"

\* C8: constructing a Plackett-Luce generator whose bloc proportions do not
\* sum to 1 fails with a ValueError.
C8_ProportionsValidated ==
    (/\ pc # "new"
     /\ call.cls = "PlackettLuce"
     /\ SumSeq(call.slate_voter_prop) # Denom)
    => (pc = "rejected" /\ result.kind = "ValueError")

SuppliedBlocs(c) == DOMAIN c.extra

TwoDistinctBlocs(c) ==
    /\ SuppliedBlocs(c) = {"W_bloc", "C_bloc"}
    /\ c.extra["W_bloc"] # c.extra["C_bloc"]

\* C9: constructing a CambridgeSampler with only one of W_bloc and C_bloc, or
\* with the two equal, fails with a ValueError; it succeeds only with two
\* distinct bloc identifiers.
C9_BlocsValidated ==
    (pc # "new" /\ call.cls = "CambridgeSampler") =>
       /\ (SuppliedBlocs(call) # {} /\ ~TwoDistinctBlocs(call)) =>
             (pc = "rejected" /\ result.kind = "ValueError")
       /\ pc = "constructed" => TwoDistinctBlocs(call)

\* two runs of one generator, random.seed called with the same seed before
\* each, return equal profiles
SeededRunsEqual == (pc = "done2" /\ rng.reseeded) => result2 = result

\* a constructor handed a seed accepts it
SeedAccepted == (pc # "new" /\ "seed" \in DOMAIN call.extra) => pc # "rejected"

\* C10: a generator accepts a seed, and two runs of generate_ballots of the
\* same configuration under the same seed return equal profiles, whatever
\* else drew random numbers between them.
C10_SeededRunsEqual == SeedAccepted /\ SeededRunsEqual

(***************************************************************************)
(* cleaning.remove_empty_ballots.  The profiles handed to it list ballots  *)
(* whose rankings are sequences of tied blocks, the empty ranking among    *)
(* them.                                                                   *)
(***************************************************************************)
CleanNames == <<"A", "B">>

\* the rankings over CleanNames: sequences of disjoint non-empty blocks
CleanRankings ==
    {r \in SeqsUpTo((SUBSET Range(CleanNames)) \ {{}}, Len(CleanNames)) :
        \A i, j \in DOMAIN r : i # j => r[i] \cap r[j] = {}}

CleanWeights == {Fraction2(1, Denom), Fraction(1)}

CleanBallots == {Ballot(r, w) : r \in CleanRankings, w \in CleanWeights}

CleanProfiles ==
    {PreferenceProfile(bs, CleanNames) : bs \in SeqsUpTo(CleanBallots, MaxProfile)}

\* PreferenceProfile(ballots=...) without candidates: the candidates are
\* those the ballots mention
candidates_of(ballots) ==
    UNION {UNION Range(ballots[i].ranking) : i \in DOMAIN ballots}

\* a bug: the filter on ballot.ranking is missing
RECURSIVE ballots_nonempty_unfiltered(_)
ballots_nonempty_unfiltered(ballots) ==
    IF ballots = <<>> THEN <<>>
    ELSE <<Head(ballots)>> \o ballots_nonempty_unfiltered(Tail(ballots))

\* [deepcopy(ballot) for ballot in pp.get_ballots() if ballot.ranking]: an
\* empty ranking is falsy; the copy of a ballot is a ballot equal to it
RECURSIVE ballots_nonempty(_)
ballots_nonempty(ballots) ==
    IF ballots = <<>> THEN <<>>
    ELSE (IF Head(ballots).ranking # <<>> THEN <<Head(ballots)>> ELSE <<>>)
            \o ballots_nonempty(Tail(ballots))

\* remove_empty_ballots(pp, keep_candidates): the value returned, and the
\* profile the caller still holds, which only copies were taken of
remove_empty_ballots(p, keep_candidates) ==
    [ret |-> IF keep_candidates
             THEN PreferenceProfile(ballots_nonempty(p.ballots), p.candidates)
             ELSE PreferenceProfile(ballots_nonempty(p.ballots),
                                    candidates_of(ballots_nonempty(p.ballots))),
     pp  |-> p]

InitClean ==
    /\ pc = "profile"
    /\ call = NoCall
    /\ gen = NoGen
    /\ ballot_pool = <<>>
    /\ result = NoResult
    /\ pool2 = <<>>
    /\ result2 = NoResult
    /\ rng = NoRng
    /\ pp \in CleanProfiles

\* pp_clean = remove_empty_ballots(pp, keep_candidates)
RemoveEmptyBallots ==
    /\ pc = "profile"
    /\ \E keep_candidates \in BOOLEAN :
          LET r == remove_empty_ballots(pp, keep_candidates)
          IN  /\ call' = [cls |-> "remove_empty_ballots", pp |-> pp,
                          keep_candidates |-> keep_candidates]
              /\ result' = r.ret
              /\ pp' = r.pp
    /\ pc' = "cleaned"
    /\ UNCHANGED <<gen, ballot_pool, pool2, result2, rng>>

NextClean == RemoveEmptyBallots

SpecClean == InitClean /\ [][NextClean]_vars

(***************************************************************************)
(* Claims about remove_empty_ballots.                                      *)
(***************************************************************************)
\* the sum of the weights of the ballots at the indices idx
RECURSIVE WeightOver(_, _)
WeightOver(ballots, idx) ==
    IF idx = {} THEN Fraction(0)
    ELSE LET i == CHOOSE x \in idx : TRUE
         IN  FracAdd(ballots[i].weight, WeightOver(ballots, idx \ {i}))

EmptyRanked(ballots) == {i \in DOMAIN ballots : ballots[i].ranking = <<>>}

\* C11: remove_empty_ballots returns a profile whose ballots are the input's
\* ballots with a non-empty ranking, in the input's order and with their
\* weights; its total weight is the input's less the weights of the ballots
\* with an empty ranking; the input profile is as it was before the call.
C11_RemoveEmptyBallots ==
    pc = "cleaned" =>
      /\ result.kind = "PreferenceProfile"
      /\ \E f \in [DOMAIN result.ballots -> DOMAIN call.pp.ballots] :
            /\ \A i, j \in DOMAIN f : i < j => f[i] < f[j]
            /\ \A i \in DOMAIN f : result.ballots[i] = call.pp.ballots[f[i]]
            /\ Range(f) = (DOMAIN call.pp.ballots) \ EmptyRanked(call.pp.ballots)
      /\ FracAdd(SumWeights(result.ballots),
                 WeightOver(call.pp.ballots, EmptyRanked(call.pp.ballots)))
            = SumWeights(call.pp.ballots)
      /\ pp = call.pp

\* a profile of three ballots, the middle one with an empty ranking and the
\* other two different, has been cleaned
C11_Witness ==
    /\ pc = "cleaned"
    /\ Len(call.pp.ballots) = 3
    /\ call.pp.ballots[2].ranking = <<>>
    /\ Len(result.ballots) = 2
    /\ result.ballots[1] # result.ballots[2]
    /\ SumWeights(result.ballots) # SumWeights(call.pp.ballots)

(***************************************************************************)
(* utils.remove_cand on a profile.  A ballot here has a ranking (a         *)
(* sequence of tied blocks, empty when the ballot has none), scores (a     *)
(* mapping from candidates to values, empty when it has none) and a        *)
(* weight.                                                                 *)
(***************************************************************************)
\* Ballot(ranking=..., scores=..., weight=...)
ScoredBallot(ranking, scores, weight) ==
    [ranking |-> ranking, scores |-> scores, weight |-> weight]

\* the score mappings over CleanNames: every scored candidate scores 1
ScoreMaps == UNION {[S -> {1}] : S \in SUBSET Range(CleanNames)}

ScoredBallots ==
    {ScoredBallot(r, sc, w) : r \in CleanRankings, sc \in ScoreMaps, w \in CleanWeights}

ScoredProfiles ==
    {PreferenceProfile(bs, CleanNames) : bs \in SeqsUpTo(ScoredBallots, MaxRankLen)}

\* the tied blocks of a ranking without the removed candidates, the blocks
\* left empty dropped
RECURSIVE ranking_without(_, _)
ranking_without(ranking, removed) ==
    IF ranking = <<>> THEN <<>>
    ELSE (IF Head(ranking) \ removed # {} THEN <<Head(ranking) \ removed>> ELSE <<>>)
            \o ranking_without(Tail(ranking), removed)

\* the score mapping without the removed candidates
scores_without(scores, removed) ==
    [c \in (DOMAIN scores) \ removed |-> scores[c]]

\* remove_cand(removed, ballot) for one Ballot: the weight is kept
ballot_without(ballot, removed) ==
    ScoredBallot(ranking_without(ballot.ranking, removed),
                 scores_without(ballot.scores, removed),
                 ballot.weight)

\* a ballot has a ranking or scores
HasContent(ballot) == ballot.ranking # <<>> \/ DOMAIN ballot.scores # {}

\* a bug: the ballots left with neither ranking nor scores stay in the list
RECURSIVE ballots_with_content_or_not(_)
ballots_with_content_or_not(ballots) ==
    IF ballots = <<>> THEN <<>>
    ELSE <<Head(ballots)>> \o ballots_with_content_or_not(Tail(ballots))

\* the ballots left with a ranking or scores, in order
RECURSIVE ballots_with_content(_)
ballots_with_content(ballots) ==
    IF ballots = <<>> THEN <<>>
    ELSE (IF HasContent(Head(ballots)) THEN <<Head(ballots)>> ELSE <<>>)
            \o ballots_with_content(Tail(ballots))

\* a ballot added to a list of distinct ballots: merged into the ballot of
\* the same ranking and scores, the weights summed, or appended
condense_ballot(condensed, ballot) ==
    IF \E i \in DOMAIN condensed :
          /\ condensed[i].ranking = ballot.ranking
          /\ condensed[i].scores = ballot.scores
    THEN [i \in DOMAIN condensed |->
            IF condensed[i].ranking = ballot.ranking /\ condensed[i].scores = ballot.scores
            THEN [condensed[i] EXCEPT !.weight = FracAdd(@, ballot.weight)]
            ELSE condensed[i]]
    ELSE Append(condensed, ballot)

RECURSIVE condense_ballots(_, _)
condense_ballots(ballots, condensed) ==
    IF ballots = <<>> THEN condensed
    ELSE condense_ballots(Tail(ballots), condense_ballot(condensed, Head(ballots)))

RECURSIVE candidates_without(_, _)
candidates_without(candidates, removed) ==
    IF candidates = <<>> THEN <<>>
    ELSE (IF Head(candidates) \in removed THEN <<>> ELSE <<Head(candidates)>>)
            \o candidates_without(Tail(candidates), removed)

\* remove_cand(removed, profile): every ballot without the removed
\* candidates; the ballots left with neither ranking nor scores are not in
\* the new profile; the candidates are the old ones without the removed.
\* Whether equal ballots are listed merged is not fixed by the tests, whose
\* comparisons of profiles hold either way: condense chooses.
remove_cand(removed, profile, condense) ==
    LET stripped == [i \in DOMAIN profile.ballots |->
                        ballot_without(profile.ballots[i], removed)]
        kept == ballots_with_content(stripped)
    IN  PreferenceProfile(IF condense THEN condense_ballots(kept, <<>>) ELSE kept,
                          candidates_without(profile.candidates, removed))

InitRemoveCand ==
    /\ pc = "profile"
    /\ call = NoCall
    /\ gen = NoGen
    /\ ballot_pool = <<>>
    /\ result = NoResult
    /\ pool2 = <<>>
    /\ result2 = NoResult
    /\ rng = NoRng
    /\ pp \in ScoredProfiles

\* new_profile = remove_cand(removed, pp), removed a candidate or a list
RemoveCand ==
    /\ pc = "profile"
    /\ \E removed \in (SUBSET Range(CleanNames)) \ {{}}, condense \in BOOLEAN :
          /\ call' = [cls |-> "remove_cand", pp |-> pp, removed |-> removed]
          /\ result' = remove_cand(removed, pp, condense)
    /\ pc' = "removed"
    /\ UNCHANGED <<gen, ballot_pool, pool2, result2, rng, pp>>

NextRemoveCand == RemoveCand

SpecRemoveCand == InitRemoveCand /\ [][NextRemoveCand]_vars

\* the new profile weighs what the old one did
TotalWeightKept ==
    pc = "removed" => SumWeights(result.ballots) = SumWeights(call.pp.ballots)

\* every ballot of the old profile is in the new one with its weight
BallotWeightsKept ==
    pc = "removed" =>
      /\ Len(result.ballots) = Len(call.pp.ballots)
      /\ \A i \in DOMAIN result.ballots :
            result.ballots[i].weight = call.pp.ballots[i].weight

Emptied(ballots, removed) ==
    {i \in DOMAIN ballots : ~HasContent(ballot_without(ballots[i], removed))}

\* the ballots of the old profile that become, without the removed
\* candidates, a ballot of the ranking and scores of b
BecomingLike(ballots, removed, b) ==
    {i \in DOMAIN ballots :
        /\ ballot_without(ballots[i], removed).ranking = b.ranking
        /\ ballot_without(ballots[i], removed).scores = b.scores}

\* the ballots of a list with the ranking and scores of b
Like(ballots, b) ==
    {i \in DOMAIN ballots : ballots[i].ranking = b.ranking /\ ballots[i].scores = b.scores}

UpperChars == <<"A", "B", "C", "D", "E", "F">>

\* the candidates of the ballots handed to expand_tied_ballot
ExpandNames == [i \in 1..(MaxCands + 1) |-> UpperChars[i]]

\* the rankings over ExpandNames: sequences of disjoint non-empty blocks,
\* the empty sequence among them
ExpandRankings ==
    {r \in SeqsUpTo((SUBSET Range(ExpandNames)) \ {{}}, Len(ExpandNames)) :
        \A i, j \in DOMAIN r : i # j => r[i] \cap r[j] = {}}

ExpandWeights == {Fraction2(k, Denom) : k \in 1..(2 * Denom)}

ExpandBallots == {Ballot(r, w) : r \in ExpandRankings, w \in ExpandWeights}

\* weight / n for a Fraction and a positive int
FracDiv(x, n) == Fraction2(x.num, x.den * n)

\* a bug: a tied block is listed in one order only
RECURSIVE block_orders_first_only(_)
block_orders_first_only(block) ==
    IF block = {} THEN << <<>> >>
    ELSE LET c == CHOOSE x \in block : TRUE
             rest == block_orders_first_only(block \ {c})
         IN  [j \in DOMAIN rest |-> <<{c}>> \o rest[j]]

\* the permutations of one tied block, each a sequence of singleton blocks
RECURSIVE block_orders(_)
block_orders(block) ==
    IF block = {} THEN << <<>> >>
    ELSE LET members == CHOOSE s \in [1..Cardinality(block) -> block] : IsInjective(s)
         IN  Flatten([i \in DOMAIN members |->
                LET rest == block_orders(block \ {members[i]})
                IN  [j \in DOMAIN rest |-> <<{members[i]}>> \o rest[j]]])

\* the Cartesian product of the blocks' permutations, each element the
\* concatenation of one permutation per block
RECURSIVE strict_orders(_)
strict_orders(ranking) ==
    IF ranking = <<>> THEN << <<>> >>
    ELSE LET heads == block_orders(Head(ranking))
             tails == strict_orders(Tail(ranking))
         IN  Flatten([i \in DOMAIN heads |->
                [j \in DOMAIN tails |-> heads[i] \o tails[j]]])

\* expand_tied_ballot(ballot): TypeError for a ballot without a ranking;
\* else one ballot per strict order, the ballot's weight divided equally
\* among them
expand_tied_ballot(ballot) ==
    IF ballot.ranking = <<>> THEN Raises("TypeError")
    ELSE LET orders == strict_orders(ballot.ranking)
         IN  [kind |-> "list",
              ballots |-> [i \in DOMAIN orders |->
                             Ballot(orders[i], FracDiv(ballot.weight, Len(orders)))],
              candidates |-> <<>>]

InitExpand ==
    /\ pc = "ballot"
    /\ call = NoCall
    /\ gen = NoGen
    /\ ballot_pool = <<>>
    /\ result = NoResult
    /\ pool2 = <<>>
    /\ result2 = NoResult
    /\ rng = NoRng
    /\ pp \in {PreferenceProfile(<<b>>, ExpandNames) : b \in ExpandBallots}

\* expand_tied_ballot(ballot) for the ballot of pp
ExpandTiedBallot ==
    /\ pc = "ballot"
    /\ call' = [cls |-> "expand_tied_ballot", ballot |-> pp.ballots[1]]
    /\ result' = expand_tied_ballot(pp.ballots[1])
    /\ pc' = "expanded"
    /\ UNCHANGED <<gen, ballot_pool, pool2, result2, rng, pp>>

NextExpand == ExpandTiedBallot

SpecExpand == InitExpand /\ [][NextExpand]_vars

(***************************************************************************)
(* Claims about expand_tied_ballot.                                        *)
(***************************************************************************)
RECURSIVE Factorial(_)
Factorial(n) == IF n = 0 THEN 1 ELSE n * Factorial(n - 1)

\* k1! * k2! * ... for the block sizes of a ranking
RECURSIVE FactorialProduct(_)
FactorialProduct(ranking) ==
    IF ranking = <<>> THEN 1
    ELSE Factorial(Cardinality(Head(ranking))) * FactorialProduct(Tail(ranking))

\* the number of candidates in the blocks before block i
Offset(ranking, i) == SumSeq([j \in 1..(i - 1) |-> Cardinality(ranking[j])])

\* a strict ranking lists, at the positions of each block of the tied
\* ranking, exactly the candidates of that block, one per position
ConsistentWith(strict, ranking) ==
    /\ Len(strict) = Offset(ranking, Len(ranking) + 1)
    /\ \A k \in DOMAIN strict : Cardinality(strict[k]) = 1
    /\ \A i \in DOMAIN ranking :
          UNION {strict[k] : k \in (Offset(ranking, i) + 1)..Offset(ranking, i + 1)}
             = ranking[i]

\* all the strict rankings over the candidates of a tied ranking
StrictRankingsOver(ranking) ==
    LET cands == UNION Range(ranking)
    IN  {[k \in DOMAIN s |-> {s[k]}] :
            s \in {t \in [1..Cardinality(cands) -> cands] : IsInjective(t)}}

\* expand_tied_ballot returned k1! * k2! * ... distinct strict ballots, the
\* orderings consistent with the ranking, each once
ExpandsToEveryOrder ==
    (pc = "expanded" /\ call.ballot.ranking # <<>>) =>
      /\ result.kind = "list"
      /\ Len(result.ballots) = FactorialProduct(call.ballot.ranking)
      /\ IsInjective(result.ballots)
      /\ {result.ballots[i].ranking : i \in DOMAIN result.ballots}
            = {s \in StrictRankingsOver(call.ballot.ranking) :
                  ConsistentWith(s, call.ballot.ranking)}

TieNames == <<"A", "B", "C">>

\* rankings of up to MaxRankLen tied blocks over TieNames, none empty
TieRankings ==
    {r \in SeqsUpTo((SUBSET Range(TieNames)) \ {{}}, MaxRankLen) :
        /\ r # <<>>
        /\ \A i, j \in DOMAIN r : i # j => r[i] \cap r[j] = {}}

TieBallots == {Ballot(r, Fraction(1)) : r \in TieRankings}

TieProfiles ==
    {PreferenceProfile(bs, TieNames) : bs \in SeqsUpTo(TieBallots, MaxRankLen)}

\* the tied sets handed to tiebreak_set: two or more candidates
TiedSets == {S \in SUBSET Range(TieNames) : Cardinality(S) >= 2}

TiebreakCodes == {"random", "first_place", "borda", "mine"}

FracMul(x, y) == Fraction2(x.num * y.num, x.den * y.den)

FracLess(x, y) == x.num * y.den < y.num * x.den

RECURSIVE FracSum(_)
FracSum(s) == IF s = <<>> THEN Fraction(0) ELSE FracAdd(Head(s), FracSum(Tail(s)))

\* first_place_votes(profile): a ballot gives its weight to the candidates
\* of its first block, split evenly among them
first_place_votes(profile) ==
    [c \in Range(profile.candidates) |->
        FracSum([i \in DOMAIN profile.ballots |->
            LET b == profile.ballots[i]
            IN  IF c \in b.ranking[1]
                THEN FracDiv(b.weight, Cardinality(b.ranking[1]))
                ELSE Fraction(0)])]

\* the Borda points of positions first..last of n candidates, summed:
\* position q is worth n - q + 1
RECURSIVE borda_points(_, _, _)
borda_points(n, first, last) ==
    IF first > last THEN 0 ELSE (n - first + 1) + borda_points(n, first + 1, last)

\* the block of a ranking that holds c, or 0 when the ranking leaves c out
BlockOf(ranking, c) ==
    IF \E i \in DOMAIN ranking : c \in ranking[i]
    THEN CHOOSE i \in DOMAIN ranking : c \in ranking[i]
    ELSE 0

\* the Borda score one ballot gives c: the mean of the points of the
\* positions its block spans; the candidates the ballot leaves out share the
\* positions after its last block
borda_of_ballot(b, c, n) ==
    LET i == BlockOf(b.ranking, c)
        ranked == Offset(b.ranking, Len(b.ranking) + 1)
    IN  IF i = 0
        THEN FracMul(b.weight, Fraction2(borda_points(n, ranked + 1, n), n - ranked))
        ELSE FracMul(b.weight,
                     Fraction2(borda_points(n, Offset(b.ranking, i) + 1,
                                            Offset(b.ranking, i + 1)),
                               Cardinality(b.ranking[i])))

\* borda_scores(profile)
borda_scores(profile) ==
    [c \in Range(profile.candidates) |->
        FracSum([i \in DOMAIN profile.ballots |->
            borda_of_ballot(profile.ballots[i], c, Len(profile.candidates))])]

\* a bug: the lowest score first
RECURSIVE score_dict_to_ranking_low_high(_, _)
score_dict_to_ranking_low_high(score_dict, cands) ==
    IF cands = {} THEN <<>>
    ELSE LET low == {c \in cands : \A d \in cands : ~FracLess(score_dict[d], score_dict[c])}
         IN  <<low>> \o score_dict_to_ranking_low_high(score_dict, cands \ low)

\* score_dict_to_ranking(score_dict) over the candidates cands: the
\* candidates of equal score form a block, the highest score first
RECURSIVE score_dict_to_ranking(_, _)
score_dict_to_ranking(score_dict, cands) ==
    IF cands = {} THEN <<>>
    ELSE LET top == {c \in cands : \A d \in cands : ~FracLess(score_dict[c], score_dict[d])}
         IN  <<top>> \o score_dict_to_ranking(score_dict, cands \ top)

\* the rankings a random tiebreak of every tied block of a ranking can give
random_tiebreaks(ranking) ==
    LET orders == strict_orders(ranking)
    IN  {orders[i] : i \in DOMAIN orders}

\* tiebreak_set(r_set, profile, tiebreak): the exception raised, or else the
\* set of strict rankings it can return
tiebreak_set(r_set, profile, tiebreak) ==
    IF tiebreak = "random"
    THEN [exc |-> "", rankings |-> random_tiebreaks(<<r_set>>)]
    ELSE IF tiebreak \in {"first_place", "borda"} /\ profile.kind = "PreferenceProfile"
    THEN LET tiebreak_scores == IF tiebreak = "borda" THEN borda_scores(profile)
                                ELSE first_place_votes(profile)
         IN  [exc |-> "",
              rankings |-> random_tiebreaks(score_dict_to_ranking(tiebreak_scores, r_set))]
    ELSE [exc |-> "ValueError", rankings |-> {}]

\* a value returned by tiebreak_set
RankingResult(ranking) ==
    [kind |-> "ranking", ballots |-> <<>>, candidates |-> <<>>, ranking |-> ranking]

InitTiebreak ==
    /\ pc = "profile"
    /\ call = NoCall
    /\ gen = NoGen
    /\ ballot_pool = <<>>
    /\ result = NoResult
    /\ pool2 = <<>>
    /\ result2 = NoResult
    /\ rng = NoRng
    /\ pp \in TieProfiles \cup {NoProfile}

\* tiebreak_set(r_set, pp, tiebreak), pp a profile or None
TiebreakSet ==
    /\ pc = "profile"
    /\ \E r_set \in TiedSets, tiebreak \in TiebreakCodes :
          LET t == tiebreak_set(r_set, pp, tiebreak)
          IN  /\ call' = [cls |-> "tiebreak_set", r_set |-> r_set, tiebreak |-> tiebreak]
              /\ IF t.exc # "" THEN result' = Raises(t.exc)
                 ELSE \E ranking \in t.rankings : result' = RankingResult(ranking)
    /\ pc' = "tiebroken"
    /\ UNCHANGED <<gen, ballot_pool, pool2, result2, rng, pp>>

NextTiebreak == TiebreakSet

SpecTiebreak == InitTiebreak /\ [][NextTiebreak]_vars

(***************************************************************************)
(* Claims about tiebreak_set.                                              *)
(***************************************************************************)
\* the candidate at position k of a strict ranking
CandAt(ranking, k) == CHOOSE c \in ranking[k] : TRUE

\* a sequence of singleton blocks holding each candidate of the set once
StrictOrderOf(ranking, r_set) ==
    /\ Len(ranking) = Cardinality(r_set)
    /\ \A k \in DOMAIN ranking : Cardinality(ranking[k]) = 1
    /\ UNION Range(ranking) = r_set

\* no candidate comes before one of strictly higher score
DescendingBy(ranking, score_dict) ==
    \A i, j \in DOMAIN ranking :
       i < j => ~FracLess(score_dict[CandAt(ranking, i)], score_dict[CandAt(ranking, j)])

\* C15: tiebreak_set returns, for a tied set and a valid policy (with the
\* profile the policy needs), a sequence of singleton blocks holding each
\* candidate of the set exactly once; under "first_place" (resp. "borda") a
\* candidate of strictly more first-place votes (resp. Borda score) comes
\* before one of strictly fewer, so the random fallback orders only
\* candidates of equal score.
C15_TiebreakStrictOrder ==
    pc = "tiebroken" =>
      /\ (\/ call.tiebreak = "random"
          \/ (call.tiebreak \in {"first_place", "borda"} /\ pp.kind = "PreferenceProfile"))
            => result.kind = "ranking"
      /\ result.kind = "ranking" =>
            /\ StrictOrderOf(result.ranking, call.r_set)
            /\ call.tiebreak = "first_place" =>
                  DescendingBy(result.ranking, first_place_votes(pp))
            /\ call.tiebreak = "borda" =>
                  DescendingBy(result.ranking, borda_scores(pp))

\* three candidates whose Borda scores differ pairwise but whose first-place
\* votes do not have been put in order by Borda score, "C" first
C15_Witness ==
    /\ pc = "tiebroken"
    /\ call.tiebreak = "borda"
    /\ call.r_set = Range(TieNames)
    /\ result.kind = "ranking"
    /\ result.ranking[1] = {"C"}
    /\ \A c, d \in call.r_set : c # d => borda_scores(pp)[c] # borda_scores(pp)[d]
    /\ \E c, d \in call.r_set : c # d /\ first_place_votes(pp)[c] = first_place_votes(pp)[d]

(***************************************************************************)
(* utils.elect_cands_from_set_ranking.                                     *)
(***************************************************************************)
\* the profile argument: a profile of one ballot, or None
ElectProfiles ==
    {PreferenceProfile(<<b>>, TieNames) : b \in TieBallots} \cup {NoProfile}

\* the tiebreak argument: None or a tiebreak code
ElectTiebreaks == {"None"} \cup TiebreakCodes

\* the number of candidates of a set-ranking
NumCands(ranking) == Cardinality(UNION Range(ranking))

SubSeqFrom(s, i) == [k \in 1..(Len(s) - i + 1) |-> s[k + i - 1]]

SubSeqTo(s, n) == [k \in 1..n |-> s[k]]

\* a bug: a block that fills the seats exactly is taken not to fit
block_fits_strictly(size, num_elected, m) == size + num_elected < m

\* len(ranking[i]) + num_elected <= m
block_fits(size, num_elected, m) == size + num_elected <= m

\* the loop that elects whole blocks while they fit: the index of the block
\* it stops at, and how many candidates it has elected by then
RECURSIVE elect_whole_blocks(_, _, _, _)
elect_whole_blocks(ranking, m, i, num_elected) ==
    IF num_elected >= m THEN [i |-> i, num_elected |-> num_elected, break |-> FALSE]
    ELSE IF block_fits(Cardinality(ranking[i]), num_elected, m)
    THEN elect_whole_blocks(ranking, m, i + 1, num_elected + Cardinality(ranking[i]))
    ELSE [i |-> i, num_elected |-> num_elected, break |-> TRUE]

\* a value returned by elect_cands_from_set_ranking
ElectResult(elected, remaining, tiebreak_ranking) ==
    [kind |-> "elected", ballots |-> <<>>, candidates |-> <<>>,
     elected |-> elected, remaining |-> remaining,
     tiebreak_ranking |-> tiebreak_ranking]

\* elect_cands_from_set_ranking(ranking, m, profile, tiebreak): the
\* exception raised, or else the set of values it can return
elect_cands_from_set_ranking(ranking, m, profile, tiebreak) ==
    IF m < 1 THEN [exc |-> "ValueError", results |-> {}]
    ELSE IF NumCands(ranking) < m THEN [exc |-> "ValueError", results |-> {}]
    ELSE LET stop == elect_whole_blocks(ranking, m, 1, 0)
         IN  IF ~stop.break
             THEN [exc |-> "",
                   results |-> {ElectResult(SubSeqTo(ranking, stop.i - 1),
                                            SubSeqFrom(ranking, stop.i), <<>>)}]
             ELSE IF tiebreak = "None" THEN [exc |-> "ValueError", results |-> {}]
             ELSE LET t == tiebreak_set(ranking[stop.i], profile, tiebreak)
                  IN  IF t.exc # "" THEN [exc |-> t.exc, results |-> {}]
                      ELSE [exc |-> "",
                            results |->
                              {ElectResult(
                                  SubSeqTo(ranking, stop.i - 1)
                                     \o SubSeqTo(tb, m - stop.num_elected),
                                  SubSeqFrom(tb, m - stop.num_elected + 1)
                                     \o SubSeqFrom(ranking, stop.i + 1),
                                  <<ranking[stop.i], tb>>) : tb \in t.rankings}]

InitElect ==
    /\ pc = "profile"
    /\ call = NoCall
    /\ gen = NoGen
    /\ ballot_pool = <<>>
    /\ result = NoResult
    /\ pool2 = <<>>
    /\ result2 = NoResult
    /\ rng = NoRng
    /\ pp \in ElectProfiles

\* elect_cands_from_set_ranking(ranking, m, profile=pp, tiebreak=tiebreak)
ElectCandsFromSetRanking ==
    /\ pc = "profile"
    /\ \E ranking \in TieRankings, m \in 0..(Len(TieNames) + 1),
          tiebreak \in ElectTiebreaks :
          LET e == elect_cands_from_set_ranking(ranking, m, pp, tiebreak)
          IN  /\ call' = [cls |-> "elect_cands_from_set_ranking", ranking |-> ranking,
                          m |-> m, tiebreak |-> tiebreak]
              /\ IF e.exc # "" THEN result' = Raises(e.exc)
                 ELSE \E r \in e.results : result' = r
    /\ pc' = "elected"
    /\ UNCHANGED <<gen, ballot_pool, pool2, result2, rng, pp>>

NextElect == ElectCandsFromSetRanking

SpecElect == InitElect /\ [][NextElect]_vars

(***************************************************************************)
(* Claims about elect_cands_from_set_ranking.                              *)
(***************************************************************************)
\* some leading blocks of the ranking hold exactly m candidates
WholeBlocksFill(ranking, m) ==
    \E k \in 0..Len(ranking) : Offset(ranking, k + 1) = m

\* C14: when elect_cands_from_set_ranking succeeds for a set-ranking and an
\* m from 1 to the number of candidates, the elected blocks hold exactly m
\* candidates; the elected and the remaining blocks together hold every
\* candidate of the ranking exactly once, a candidate of an earlier block of
\* the ranking before a candidate of a later one; and the tiebreak record is
\* empty exactly when no block had to be broken.
C14_ElectExactlyM ==
    (/\ pc = "elected"
     /\ result.kind = "elected"
     /\ call.m >= 1
     /\ call.m <= NumCands(call.ranking))
    => LET all == result.elected \o result.remaining
       IN  /\ Offset(result.elected, Len(result.elected) + 1) = call.m
           /\ \A i \in DOMAIN all : all[i] # {}
           /\ \A i, j \in DOMAIN all : i # j => all[i] \cap all[j] = {}
           /\ UNION Range(all) = UNION Range(call.ranking)
           /\ \A c, d \in UNION Range(call.ranking) :
                 BlockOf(call.ranking, c) < BlockOf(call.ranking, d)
                    => BlockOf(all, c) < BlockOf(all, d)
           /\ (result.tiebreak_ranking = <<>>) <=> WholeBlocksFill(call.ranking, call.m)

\* two seats filled from a ranking whose first block is one candidate and
\* whose second is a tie of two, broken by first-place votes
C14_Witness ==
    /\ pc = "elected"
    /\ result.kind = "elected"
    /\ call.m = 2
    /\ call.tiebreak = "first_place"
    /\ Len(call.ranking) = 2
    /\ Cardinality(call.ranking[1]) = 1
    /\ Cardinality(call.ranking[2]) = 2
    /\ Len(result.elected) = 2
    /\ Len(result.remaining) = 1
    /\ result.tiebreak_ranking # <<>>

(***************************************************************************)
(* More claims about the generators.                                       *)
(***************************************************************************)
\* round(num / den) as Python rounds: to the nearest int, a half to the
\* even one
PyRound(num, den) ==
    LET q == num \div den
        r == num % den
    IN  IF 2 * r < den THEN q
        ELSE IF 2 * r > den THEN q + 1
        ELSE IF q % 2 = 0 THEN q ELSE q + 1

\* round(number_of_ballots * proportion) for each bloc, summed
RoundedBallots(g) ==
    SumSeq([slate \in DOMAIN Slates |->
               PyRound(g.number_of_ballots * g.slate_voter_prop[slate], Denom)])

\* C16: for each bloc, generate_ballots of PlackettLuce and of BradleyTerry
\* draws exactly round(number_of_ballots * proportion) ballots.  The number
\* drawn for a bloc is never more than the rounded one, so the pool has the
\* rounded numbers' sum of ballots exactly when every bloc has its own.
C16_RoundedBlocCounts ==
    (/\ pc = "done"
     /\ IsBlocModel(gen.cls)
     /\ result.kind = "PreferenceProfile")
    => Len(ballot_pool) = RoundedBallots(gen)

\* the pairs of positions (i, j) of a ranking with i before j
PairsBefore(ranking) ==
    {ij \in (DOMAIN ranking) \X (DOMAIN ranking) : ij[1] < ij[2]}

\* the product over the pairs (i, j), i before j, of
\* support(i) / (support(i) + support(j)), as numerator over denominator
PairwiseProduct(g, slate, ranking) ==
    LET num == [ij \in PairsBefore(ranking) |-> SupportOf(g, slate, ranking[ij[1]])]
        den == [ij \in PairsBefore(ranking) |->
                  SupportOf(g, slate, ranking[ij[1]])
                    + SupportOf(g, slate, ranking[ij[2]])]
    IN  [num |-> ProdOver(PairsBefore(ranking), num, 1),
         den |-> ProdOver(PairsBefore(ranking), den, 1)]

\* two quotients of non-zero denominator are the same number
SameQuotient(x, y) == x.num * y.den = y.num * x.den

\* C17: the probability BradleyTerry._calc_prob gives a ranking is the
\* product, over the pairs of positions i before j, of
\* support(i) / (support(i) + support(j)), and of nothing else (looked at
\* after a run that drew ballots).
C17_PairwiseProductOnly ==
    (/\ pc = "done"
     /\ gen.cls = "BradleyTerry"
     /\ ballot_pool # <<>>
     /\ result.kind = "PreferenceProfile")
    => LET perms == permutations(gen.candidates, gen.ballot_length)
       IN  \A slate \in DOMAIN Slates, i \in DOMAIN perms :
              SameQuotient(calc_prob(gen, slate, perms[i]),
                           PairwiseProduct(gen, slate, perms[i]))

\* C18: the rankings BradleyTerry gives probabilities to, and so those it
\* draws, are the full permutations of the candidates: each lists every
\* candidate, whatever ballot_length is (looked at after a run that drew
\* ballots).
C18_FullPermutations ==
    (/\ pc = "done"
     /\ gen.cls = "BradleyTerry"
     /\ ballot_pool # <<>>
     /\ result.kind = "PreferenceProfile")
    => LET perms == permutations(gen.candidates, gen.ballot_length)
       IN  /\ \A i \in DOMAIN perms : Range(perms[i]) = Range(gen.candidates)
           /\ \A k \in DOMAIN ballot_pool : Len(ballot_pool[k]) = Len(gen.candidates)

\* C19: IAC.generate_ballots draws each ballot from the permutations of
\* length ballot_length of the candidates, as IC does: the index it draws
\* ranges over the whole list of them, for every number of candidates and
\* every ballot_length, and a run for one ballot or more returns a profile
\* of rankings of that list.
C19_IACDrawsFromAllPermutations ==
    (pc = "done" /\ gen.cls = "IAC" /\ gen.number_of_ballots > 0) =>
       /\ IACRange = Len(perm_rankings_of(gen))
       /\ result.kind = "PreferenceProfile"
       /\ Range(ballot_pool) \subseteq Range(perm_rankings_of(gen))

\* the bloc whose voter cast ballot k of the pool
SlateOfBallot(g, k) ==
    CHOOSE slate \in DOMAIN Slates :
       BallotsBefore(g, slate) < k /\ k <= BallotsBefore(g, slate + 1)

\* C20: when ballot_length is the number of candidates, generate_ballots of
\* PlackettLuce does not fail, and in every ranking it draws no candidate of
\* support 0 comes before a candidate of positive support.
C20_ZeroWeightLast ==
    (/\ pc = "done"
     /\ gen.cls = "PlackettLuce"
     /\ gen.ballot_length = Len(gen.candidates))
    => /\ result.kind = "PreferenceProfile"
       /\ \A k \in DOMAIN ballot_pool :
             \A i, j \in DOMAIN ballot_pool[k] :
                (/\ SupportOf(gen, SlateOfBallot(gen, k), ballot_pool[k][i].str) = 0
                 /\ SupportOf(gen, SlateOfBallot(gen, k), ballot_pool[k][j].str) > 0)
                => j < i

(***************************************************************************)
(* AlternatingCrossover.  slate_to_candidate maps a slate to the list of   *)
(* its candidates; slate_crossover_rate maps a slate to a dict from        *)
(* slates to rates, here a sequence of [opposing, rate] in the order of    *)
(* its keys.  A rate is a float, a multiple of 1 / Denom, or an int.       *)
(***************************************************************************)
FloatRate(k) == [isint |-> FALSE, num |-> k]

IntRate(r) == [isint |-> TRUE, num |-> r]

CrossoverRates == {FloatRate(k) : k \in 0..Denom} \cup {IntRate(r) : r \in 0..1}

\* the slate other than this one
OtherSlate(slate) == IF slate = 1 THEN 2 ELSE 1

\* the rate left for a bloc's own slate
LoyalRate(rate) ==
    IF rate.isint THEN IntRate(1 - rate.num) ELSE FloatRate(Denom - rate.num)

\* slate_crossover_rate with one rate for both slates: each slate's dict has
\* the opposing slate as key, and the slate itself too when own_key
crossover_dicts(rate, own_key) ==
    [slate \in DOMAIN Slates |->
        <<[opposing |-> OtherSlate(slate), rate |-> rate]>>
           \o (IF own_key THEN <<[opposing |-> slate, rate |-> LoyalRate(rate)]>>
               ELSE <<>>)]

\* the lists of candidates a slate can be given: one or more of the
\* candidates, in any order
SlateCandidates(candidates) ==
    {l \in SeqsUpTo(Range(candidates), Len(candidates)) : l # <<>> /\ IsInjective(l)}

\* AlternatingCrossover(slate_to_candidate=..., pref_interval_by_slate=...,
\*     slate_voter_prop=..., slate_crossover_rate=..., number_of_ballots=...,
\*     candidates=..., ballot_length=...)
CrossoverCall(c, s2c, rate, own_key) ==
    [cls |-> "AlternatingCrossover",
     number_of_ballots |-> c.number_of_ballots,
     candidates |-> c.candidates,
     ballot_length |-> c.ballot_length,
     pref_interval_by_slate |-> c.pref_interval_by_slate,
     slate_voter_prop |-> c.slate_voter_prop,
     extra |-> c.extra,
     slate_to_candidate |-> s2c,
     slate_crossover_rate |-> crossover_dicts(rate, own_key)]

\* AlternatingCrossover.__init__: super().__init__(**data), then the four
\* fields
AlternatingCrossover_init(c) ==
    LET base == Ballot_Generator_init(c)
    IN  IF ~base.ok THEN base
        ELSE [ok |-> TRUE, exc |-> "",
              obj |-> [cls |-> c.cls,
                       number_of_ballots |-> base.obj.number_of_ballots,
                       ballot_length |-> base.obj.ballot_length,
                       candidates |-> base.obj.candidates,
                       pref_interval_by_slate |-> c.pref_interval_by_slate,
                       slate_voter_prop |-> c.slate_voter_prop,
                       slate_to_candidate |-> c.slate_to_candidate,
                       slate_crossover_rate |-> c.slate_crossover_rate]]

NewAlternatingCrossover ==
    /\ pc = "new"
    /\ \E base \in BlocCalls("AlternatingCrossover", ValidProps) :
          /\ ValidCall(base)
          /\ \E s2c \in [DOMAIN Slates -> SlateCandidates(base.candidates)],
                rate \in CrossoverRates, own_key \in BOOLEAN :
                LET c == CrossoverCall(base, s2c, rate, own_key)
                    r == AlternatingCrossover_init(c)
                IN  /\ call' = c
                    /\ IF r.ok
                       THEN gen' = r.obj /\ pc' = "constructed" /\ result' = NoResult
                       ELSE gen' = NoGen /\ pc' = "rejected" /\ result' = Raises(r.exc)
    /\ UNCHANGED <<ballot_pool, pool2, result2, rng, pp>>

\* numpy.random.choice(a, p=p, replace=False), no size given, raises
\* ValueError
choice_one_raises(a, p) == Len(p) # Len(a) \/ SumSeq(p) # Denom

\* the elements numpy.random.choice(a, p=p, replace=False) can return: one
\* element of a, found by its position in p
choice_one_outcomes(a, p) == {a[i] : i \in NonZero(p)}

\* [item for sublist in zip(xs, ys) for item in sublist]: zip stops at the
\* end of the shorter list
RECURSIVE zip_flat(_, _)
zip_flat(xs, ys) ==
    IF xs = <<>> \/ ys = <<>> THEN <<>>
    ELSE <<Head(xs), Head(ys)>> \o zip_flat(Tail(xs), Tail(ys))

\* ballot[: self.ballot_length]
truncate(ballot, n) == [i \in 1..(IF Len(ballot) < n THEN Len(ballot) ELSE n) |-> ballot[i]]

\* [pref_interval_dict[cand] for cand in cands]
prefs_for(g, slate, cands) == [i \in DOMAIN cands |-> SupportOf(g, slate, cands[i])]

\* what a loop of the generator can come to: the exception raised, or the
\* ballots appended, each with the slate and the opposing slate of its loop
Appended(ballots) == [exc |-> "", ballots |-> ballots]

Raised(exc) == [exc |-> exc, ballots |-> <<>>]

\* for _ in range(crossover_ballots): k passes left, bloc_cands and
\* opposing_cands as the last pass left them.  list() of the one name that
\* choice returns is the list of its characters, for these names the name
RECURSIVE crossover_loop(_, _, _, _, _, _)
crossover_loop(g, slate, opposing_slate, k, bloc_cands, opposing_cands) ==
    LET pref_for_opposing == prefs_for(g, slate, opposing_cands)
        pref_for_bloc == prefs_for(g, slate, bloc_cands)
    IN  IF k = 0 THEN {Appended(<<>>)}
        ELSE IF \/ choice_one_raises(g.candidates, pref_for_bloc)
                \/ choice_one_raises(g.candidates, pref_for_opposing)
        THEN {Raised("ValueError")}
        ELSE UNION {
               LET ballot == IF slate # opposing_slate THEN zip_flat(<<o>>, <<b>>)
                             ELSE <<b>>
                   entry == [slate |-> slate, opposing |-> opposing_slate,
                             ranking |-> truncate(ballot, g.ballot_length)]
               IN  {IF r.exc # "" THEN r ELSE Appended(<<entry>> \o r.ballots) :
                      r \in crossover_loop(g, slate, opposing_slate, k - 1, <<b>>, <<o>>)} :
               b \in choice_one_outcomes(g.candidates, pref_for_bloc),
               o \in choice_one_outcomes(g.candidates, pref_for_opposing)}

\* the pairs (slate, opposing slate) in the order the two for loops visit
\* them
crossover_pairs(g) ==
    Flatten([slate \in DOMAIN Slates |->
        [i \in DOMAIN g.slate_crossover_rate[slate] |->
            [slate |-> slate,
             opposing |-> g.slate_crossover_rate[slate][i].opposing,
             rate |-> g.slate_crossover_rate[slate][i].rate]]])

\* the two for loops from the given pair on: range(crossover_ballots) is a
\* TypeError when the rate, and so crossover_rate * num_ballots_race, is a
\* float
RECURSIVE crossover_from(_, _)
crossover_from(g, pairs) ==
    IF pairs = <<>> THEN {Appended(<<>>)}
    ELSE LET pair == Head(pairs)
             crossover_ballots == pair.rate.num * num_ballots_of(g, pair.slate)
         IN  IF ~pair.rate.isint THEN {Raised("TypeError")}
             ELSE UNION {
                    IF first.exc # "" THEN {first}
                    ELSE {IF rest.exc # "" THEN rest
                          ELSE Appended(first.ballots \o rest.ballots) :
                             rest \in crossover_from(g, Tail(pairs))} :
                    first \in crossover_loop(g, pair.slate, pair.opposing,
                                             crossover_ballots,
                                             g.slate_to_candidate[pair.slate],
                                             g.slate_to_candidate[pair.opposing])}

\* AlternatingCrossover.generate_ballots; pool2 keeps, for each ballot of the
\* pool, the slate and the opposing slate of the loop that appended it
GenerateAlternatingCrossover ==
    /\ pc = "constructed"
    /\ gen.cls = "AlternatingCrossover"
    /\ \E run \in crossover_from(gen, crossover_pairs(gen)) :
          IF run.exc # ""
          THEN /\ ballot_pool' = <<>>
               /\ pool2' = <<>>
               /\ result' = Raises(run.exc)
          ELSE LET ballots_list == [i \in DOMAIN run.ballots |->
                                       StrRanking(run.ballots[i].ranking)]
               IN  /\ ballot_pool' = ballots_list
                   /\ pool2' = [i \in DOMAIN run.ballots |->
                                  [slate |-> run.ballots[i].slate,
                                   opposing |-> run.ballots[i].opposing]]
                   /\ result' = ballot_pool_to_profile(ballots_list, gen.candidates)
    /\ pc' = "done"
    /\ UNCHANGED <<call, gen, result2, rng, pp>>

NextAlternatingCrossover == NewAlternatingCrossover \/ GenerateAlternatingCrossover

SpecAlternatingCrossover == InitGen /\ [][NextAlternatingCrossover]_vars

(***************************************************************************)
(* Claims about AlternatingCrossover.                                      *)
(***************************************************************************)
\* the number of ballots of the pool that the loop of this slate over this
\* opposing slate appended
BallotsOfPair(slate, opposing) ==
    Cardinality({k \in DOMAIN pool2 :
                    pool2[k].slate = slate /\ pool2[k].opposing = opposing})

\* the number of ballots of the pool that the loops of this slate appended
BallotsOfSlate(slate) ==
    Cardinality({k \in DOMAIN pool2 : pool2[k].slate = slate})

\* round(crossover_rate * bloc_ballot_count)
RoundedCrossover(rate, count) ==
    IF rate.isint THEN rate.num * count ELSE PyRound(rate.num * count, Denom)

\* the rate a slate's dict gives for the other slate
CrossoverRateOf(g, slate) == g.slate_crossover_rate[slate][1].rate

\* the two slates share no candidate and every bloc has a ballot to cast
TwoBlocsVoting(g) ==
    /\ Range(g.slate_to_candidate[1]) \cap Range(g.slate_to_candidate[2]) = {}
    /\ \A slate \in DOMAIN Slates : num_ballots_of(g, slate) > 0

\* C21: when the two slates share no candidate and every bloc has a ballot
\* to cast, generate_ballots of AlternatingCrossover returns a profile in
\* which, for each bloc, the crossover ballots number
\* round(crossover_rate * bloc_ballot_count) and the crossover and loyal
\* ballots together number the bloc's ballot count.
C21_CrossoverAndLoyalCounts ==
    (pc = "done" /\ gen.cls = "AlternatingCrossover" /\ TwoBlocsVoting(gen)) =>
       /\ result.kind = "PreferenceProfile"
       /\ \A slate \in DOMAIN Slates :
             /\ BallotsOfPair(slate, OtherSlate(slate))
                   = RoundedCrossover(CrossoverRateOf(gen, slate),
                                      num_ballots_of(gen, slate))
             /\ BallotsOfSlate(slate) = num_ballots_of(gen, slate)

\* ballot k of the pool, as the list of its candidates
CandidatesOfBallot(k) == [i \in DOMAIN ballot_pool[k] |-> ballot_pool[k][i].str]

\* the smaller of two numbers
Smaller(m, n) == IF m < n THEN m ELSE n

\* a ballot that alternates the opposing slate's and the own slate's
\* candidates, the opposing slate's first, each candidate once at most, and
\* stops only at ballot_length or when both slates' lists are used up
AlternatesInFull(g, ranking, slate, opposing) ==
    /\ \A i \in DOMAIN ranking :
          ranking[i] \in Range(g.slate_to_candidate[IF i % 2 = 1 THEN opposing
                                                     ELSE slate])
    /\ IsInjective(ranking)
    /\ Len(ranking) = Smaller(g.ballot_length,
                              Len(g.slate_to_candidate[opposing])
                                 + Len(g.slate_to_candidate[slate]))

\* every voter of every bloc crosses over: the rate for the opposing slate
\* is the int 1, which range() takes
AllCrossOver(g) ==
    \A slate \in DOMAIN Slates : CrossoverRateOf(g, slate) = IntRate(1)

\* C22: when the two slates share no candidate, every bloc has a ballot to
\* cast and every voter crosses over, generate_ballots of
\* AlternatingCrossover returns a profile in which every crossover ballot
\* alternates opposing-bloc and own-bloc candidates from an opposing-bloc
\* candidate on, has each candidate once at most and is cut only at
\* ballot_length, and every loyal ballot ranks candidates of the voter's own
\* bloc only.
C22_CrossoverBallotsAlternate ==
    (/\ pc = "done"
     /\ gen.cls = "AlternatingCrossover"
     /\ TwoBlocsVoting(gen)
     /\ AllCrossOver(gen))
    => /\ result.kind = "PreferenceProfile"
       /\ \A k \in DOMAIN ballot_pool :
             IF pool2[k].slate # pool2[k].opposing
             THEN AlternatesInFull(gen, CandidatesOfBallot(k),
                                   pool2[k].slate, pool2[k].opposing)
             ELSE Range(CandidatesOfBallot(k))
                     \subseteq Range(gen.slate_to_candidate[pool2[k].slate])

====
